---------------------------- MODULE Spec2Model ----------------------------
(***************************************************************************)
(* Model of juego_pardo.py: the PvP matchmaking queue (join_pvp_queue),    *)
(* the attack resolver (execute_attack) and the PvE reward calculator      *)
(* (complete_pve_mission, generate_random_item).                           *)
(*                                                                         *)
(* Four specifications share the variables:                                *)
(*   Spec        join_pvp_queue handled one request at a time              *)
(*   SpecConc    join_pvp_queue handlers interleaved (threaded server)     *)
(*   SpecAttack  execute_attack                                            *)
(*   SpecMission complete_pve_mission                                      *)
(***************************************************************************)
EXTENDS Integers, Sequences, FiniteSets, TLC

VARIABLES
    pvp_queue,      \* the module-level dict, as the sequence of its items in insertion order
    now,            \* time.time()
    last,           \* the last join_pvp_queue request handled and its response
    entered,        \* history: for each queued user, the clock when its key was inserted
    req,            \* SpecConc: the handlers in flight, one record per request
    rng_log,        \* the calls made to the random module by the last handler, in order
    attack,         \* the last execute_attack call: its arguments and its return value
    mission         \* the last complete_pve_mission call: its arguments and its response

vars == <<pvp_queue, now, last, entered, req, rng_log, attack, mission>>

-----------------------------------------------------------------------------
(* Bounds of the model                                                     *)

NPlayers == 3
MaxTime == 2
NReqs == 3
MaxPower == 10
MaxEndurance == 5

Players == 1..NPlayers
Reqs == 1..NReqs
\* levels a request may carry: one below the gate, the levels of the
\* examples (20, 24, 30) and both sides of the window's edge (25, 26)
Levels == {9, 20, 24, 25, 26, 30}

-----------------------------------------------------------------------------
(* Program constants                                                       *)

MIN_PVP_LEVEL == 10
LEVEL_WINDOW == 5

-----------------------------------------------------------------------------
(* The queue: a Python dict {user_id: {level, stats, timestamp}}.  A dict  *)
(* iterates in insertion order; assigning to a key it already holds        *)
(* replaces the value and keeps the key's position.  The stats payload is  *)
(* copied and never read, and is left out.  by is history: the request     *)
(* whose handler created the value object (0 where requests are handled   *)
(* one at a time and not numbered); it tells two entries of one user      *)
(* apart.                                                                  *)

Abs(x) == IF x < 0 THEN -x ELSE x

None == [uid |-> 0, level |-> 0, timestamp |-> 0, by |-> 0]

Keys(q) == {q[i].uid : i \in 1..Len(q)}

\* line 244
LevelTooLowStrict(level) == level < MIN_PVP_LEVEL - 1
LevelTooLow(level) == level < MIN_PVP_LEVEL

\* line 250: the condition of the scan
InRangeExclusive(player_data, uid, user_id, level) ==
    Abs(player_data.level - level) < LEVEL_WINDOW /\ uid # user_id
InRangeAnyUser(player_data, uid, user_id, level) ==
    Abs(player_data.level - level) <= LEVEL_WINDOW
InRange(player_data, uid, user_id, level) ==
    Abs(player_data.level - level) <= LEVEL_WINDOW /\ uid # user_id

\* lines 249-253: the index in items of the first entry the scan accepts, 0 if none
LastFit(items, user_id, level) ==
    LET hits == {i \in 1..Len(items) : InRange(items[i], items[i].uid, user_id, level)}
    IN IF hits = {} THEN 0 ELSE CHOOSE i \in hits : \A j \in hits : j <= i
FirstFit(items, user_id, level) ==
    LET hits == {i \in 1..Len(items) : InRange(items[i], items[i].uid, user_id, level)}
    IN IF hits = {} THEN 0 ELSE CHOOSE i \in hits : \A j \in hits : i <= j

\* line 252: del pvp_queue[uid] (the key is present)
DelItem(q, uid) == SelectSeq(q, LAMBDA e : e.uid # uid)

\* line 264: pvp_queue[user_id] = {...}
SetItem(q, user_id, value) ==
    IF user_id \in Keys(q)
    THEN [i \in 1..Len(q) |-> IF q[i].uid = user_id THEN value ELSE q[i]]
    ELSE Append(q, value)

\* line 264: the value stored
NewEntry(user_id, level, r) ==
    [uid |-> user_id, level |-> level, timestamp |-> now, by |-> r]

\* history: the clock at which each key now in the queue was inserted
EnteredAfterSet(user_id) ==
    IF user_id \in Keys(pvp_queue) THEN entered ELSE [entered EXCEPT ![user_id] = now]

IdleReq == [pc |-> "idle", user_id |-> 0, level |-> 0, items |-> <<>>,
            opponent |-> None, status |-> "none"]
NoJoin == [user_id |-> 0, level |-> 0, items |-> <<>>, entered |-> <<>>,
           opponent |-> None, status |-> "none", match_id |-> <<>>]
NoItem == [type |-> "None", level |-> 0, rarity |-> "None", stats |-> {}]
NoAttack == [pc |-> "none", attacker |-> [power |-> 0, dexterity |-> 0],
             defender |-> [endurance |-> 0],
             hit |-> FALSE, damage |-> 0, critical |-> FALSE, blocked |-> FALSE]
NoMission == [pc |-> "none", mission_id |-> 0, user_id |-> 0, victory |-> FALSE,
              status |-> 0, exp |-> 0, gold |-> 0, item |-> NoItem]

Init ==
    /\ pvp_queue = <<>>
    /\ now = 0
    /\ last = NoJoin
    /\ entered = [p \in Players |-> 0]
    /\ req = [r \in Reqs |-> IdleReq]
    /\ rng_log = <<>>
    /\ attack = NoAttack
    /\ mission = NoMission

-----------------------------------------------------------------------------
(* Spec: one request at a time.  join_pvp_queue, lines 235-265, whole.     *)

JoinRejected(user_id, level) ==
    /\ LevelTooLow(level)
    /\ last' = [user_id |-> user_id, level |-> level, items |-> pvp_queue, entered |-> entered,
                opponent |-> None, status |-> "error", match_id |-> <<>>]
    /\ UNCHANGED <<pvp_queue, entered>>

JoinMatched(user_id, level) ==
    /\ ~LevelTooLow(level)
    /\ FirstFit(pvp_queue, user_id, level) # 0
    /\ LET opponent == pvp_queue[FirstFit(pvp_queue, user_id, level)]
       IN /\ pvp_queue' = DelItem(pvp_queue, opponent.uid)
          /\ last' = [user_id |-> user_id, level |-> level, items |-> pvp_queue, entered |-> entered,
                      opponent |-> opponent, status |-> "match_found",
                      match_id |-> <<user_id, opponent.uid, now>>]
          /\ entered' = [entered EXCEPT ![opponent.uid] = 0]

JoinQueued(user_id, level) ==
    /\ ~LevelTooLow(level)
    /\ FirstFit(pvp_queue, user_id, level) = 0
    /\ pvp_queue' = SetItem(pvp_queue, user_id, NewEntry(user_id, level, 0))
    /\ entered' = EnteredAfterSet(user_id)
    /\ last' = [user_id |-> user_id, level |-> level, items |-> pvp_queue, entered |-> entered,
                opponent |-> None, status |-> "searching", match_id |-> <<>>]

join_pvp_queue ==
    /\ \E user_id \in Players, level \in Levels :
          \/ JoinRejected(user_id, level)
          \/ JoinMatched(user_id, level)
          \/ JoinQueued(user_id, level)
    /\ UNCHANGED <<now, req, rng_log, attack, mission>>

\* the clock advances between requests
Tick ==
    /\ now < MaxTime
    /\ now' = now + 1
    /\ UNCHANGED <<pvp_queue, last, entered, req, rng_log, attack, mission>>

Next == join_pvp_queue \/ Tick

Spec == Init /\ [][Next]_vars

-----------------------------------------------------------------------------
(* SpecConc: the handlers of several requests interleaved.  The server     *)
(* (app.run, line 376) serves each request on its own thread and line 232  *)
(* to 265 take no lock, so a handler can be preempted between the          *)
(* snapshot list(pvp_queue.items()) of line 249, the del of line 252 and   *)
(* the assignment of line 264.  Each of these is one dict operation and    *)
(* atomic; the scan between them reads only the handler's own snapshot.    *)

\* lines 239-251: the gate, the snapshot and the scan over the snapshot
JoinBegin(r) ==
    /\ req[r].pc = "idle"
    /\ \E user_id \in Players, level \in Levels :
          \/ /\ LevelTooLow(level)
             /\ req' = [req EXCEPT ![r] = [pc |-> "done", user_id |-> user_id,
                           level |-> level, items |-> <<>>, opponent |-> None,
                           status |-> "error"]]
          \/ /\ ~LevelTooLow(level)
             /\ FirstFit(pvp_queue, user_id, level) # 0
             /\ req' = [req EXCEPT ![r] = [pc |-> "del", user_id |-> user_id,
                           level |-> level, items |-> pvp_queue,
                           opponent |-> pvp_queue[FirstFit(pvp_queue, user_id, level)],
                           status |-> "none"]]
          \/ /\ ~LevelTooLow(level)
             /\ FirstFit(pvp_queue, user_id, level) = 0
             /\ req' = [req EXCEPT ![r] = [pc |-> "set", user_id |-> user_id,
                           level |-> level, items |-> pvp_queue, opponent |-> None,
                           status |-> "none"]]
    /\ UNCHANGED <<pvp_queue, now, last, entered, rng_log, attack, mission>>

\* lines 252-261: del pvp_queue[uid], then the match response; del raises
\* KeyError when another handler has removed the key since the snapshot,
\* and the request ends in a server error
JoinDel(r) ==
    /\ req[r].pc = "del"
    /\ \/ /\ req[r].opponent.uid \in Keys(pvp_queue)
          /\ pvp_queue' = DelItem(pvp_queue, req[r].opponent.uid)
          /\ entered' = [entered EXCEPT ![req[r].opponent.uid] = 0]
          /\ req' = [req EXCEPT ![r].pc = "done", ![r].status = "match_found"]
       \/ /\ req[r].opponent.uid \notin Keys(pvp_queue)
          /\ req' = [req EXCEPT ![r].pc = "done", ![r].status = "key_error"]
          /\ UNCHANGED <<pvp_queue, entered>>
    /\ UNCHANGED <<now, last, rng_log, attack, mission>>

\* lines 262-265: pvp_queue[user_id] = {...}, then the searching response
JoinSet(r) ==
    /\ req[r].pc = "set"
    /\ pvp_queue' = SetItem(pvp_queue, req[r].user_id,
                            NewEntry(req[r].user_id, req[r].level, r))
    /\ entered' = EnteredAfterSet(req[r].user_id)
    /\ req' = [req EXCEPT ![r].pc = "done", ![r].status = "searching"]
    /\ UNCHANGED <<now, last, rng_log, attack, mission>>

NextConc == \E r \in Reqs : JoinBegin(r) \/ JoinDel(r) \/ JoinSet(r)

SpecConc == Init /\ [][NextConc]_vars

-----------------------------------------------------------------------------
(* SpecAttack: execute_attack, lines 75-114.  Probabilities and the draws  *)
(* of random.random() are counted in 1/10000; defense and the damage before *)
(* int() are counted in halves, since endurance * 1.5 is a multiple of 0.5. *)

Min(a, b) == IF a < b THEN a ELSE b
Max(a, b) == IF a > b THEN a ELSE b

HIT_BASE == 7500
HIT_PER_DEX == 50
HIT_CAP == 9500
CRIT_PER_DEX == 10
CRIT_CAP == 3000
BLOCK_PER_END == 8
BLOCK_CAP == 2500

\* the values random.random() returns in the model (1/10000): both sides of
\* the hit chances 0.75 and 0.95, and the two ends of [0, 1)
RandomUnits == {0, 7500, 7501, 9500, 9501, 9999}

Powers == 1..MaxPower
Dexterities == {0, 1, 40, 300}
Endurances == 0..MaxEndurance

\* lines 55-57
calculate_hit_chance(attacker_dex) == Min(HIT_CAP, HIT_BASE + attacker_dex * HIT_PER_DEX)
\* lines 59-61
calculate_crit_chance(attacker_dex) == Min(CRIT_CAP, attacker_dex * CRIT_PER_DEX)
\* lines 63-65
calculate_block_chance(defender_end) == Min(BLOCK_CAP, defender_end * BLOCK_PER_END)
\* line 69: the upper end of random.randint(1, max(1, int(power * 0.2)))
RandintMax(power) == Max(1, power \div 5)
\* line 69
calculate_base_damage(power, k) == power + k
\* lines 71-73, in halves
calculate_defense(endurance) == endurance * 3

\* line 82: the attack misses
Misses(attacker, r1) == r1 > calculate_hit_chance(attacker.dexterity)
\* line 95
IsCritical(attacker, r2) == r2 < calculate_crit_chance(attacker.dexterity)
\* line 101
IsBlocked(defender, r3) == r3 < calculate_block_chance(defender.endurance)

\* line 106, in halves: max(1, base_damage - defense)
FinalDamage(base_damage, defense) == Max(2, 2 * base_damage - defense)

\* line 110: int() of a positive number of halves
IntOfHalvesRounded(h) == (h + 1) \div 2
IntOfHalves(h) == h \div 2

\* one call to the random module: the function, the line that calls it, the value
Draw(fn, line, value) == [fn |-> fn, line |-> line, value |-> value]

\* the calls execute_attack makes to the random module, in order
AttackDrawsEager(missed, r1, k, r2, r3) ==
    <<Draw("random", 82, r1), Draw("randint", 69, k),
      Draw("random", 95, r2), Draw("random", 101, r3)>>
AttackDraws(missed, r1, k, r2, r3) ==
    IF missed
    THEN <<Draw("random", 82, r1)>>
    ELSE <<Draw("random", 82, r1), Draw("randint", 69, k),
           Draw("random", 95, r2), Draw("random", 101, r3)>>

\* lines 83-89
AttackMissed(r1, k, r2, r3) ==
    /\ Misses(attack.attacker, r1)
    /\ rng_log' = AttackDraws(TRUE, r1, k, r2, r3)
    /\ attack' = [attack EXCEPT !.pc = "returned", !.hit = FALSE, !.damage = 0,
                                !.critical = FALSE, !.blocked = FALSE]

\* lines 91-114
AttackHit(r1, k, r2, r3) ==
    /\ ~Misses(attack.attacker, r1)
    /\ rng_log' = AttackDraws(FALSE, r1, k, r2, r3)
    /\ LET is_critical == IsCritical(attack.attacker, r2)
           is_blocked == IsBlocked(attack.defender, r3)
           base == calculate_base_damage(attack.attacker.power, k)
           base_damage == IF is_critical THEN base * 2 ELSE base
           def == calculate_defense(attack.defender.endurance)
           defense == IF is_blocked THEN def * 2 ELSE def
       IN attack' = [attack EXCEPT !.pc = "returned", !.hit = TRUE,
                        !.damage = IntOfHalves(FinalDamage(base_damage, defense)),
                        !.critical = is_critical, !.blocked = is_blocked]

execute_attack ==
    /\ attack.pc = "called"
    /\ \E r1 \in RandomUnits, r2 \in RandomUnits, r3 \in RandomUnits :
          \E k \in 1..RandintMax(attack.attacker.power) :
             \/ AttackMissed(r1, k, r2, r3)
             \/ AttackHit(r1, k, r2, r3)
    /\ UNCHANGED <<pvp_queue, now, last, entered, req, mission>>

InitAttack ==
    /\ pvp_queue = <<>>
    /\ now = 0
    /\ last = NoJoin
    /\ entered = [p \in Players |-> 0]
    /\ req = [r \in Reqs |-> IdleReq]
    /\ rng_log = <<>>
    /\ mission = NoMission
    /\ \E power \in Powers, dexterity \in Dexterities, endurance \in Endurances :
          attack = [NoAttack EXCEPT !.pc = "called",
                       !.attacker = [power |-> power, dexterity |-> dexterity],
                       !.defender = [endurance |-> endurance]]

SpecAttack == InitAttack /\ [][execute_attack]_vars

-----------------------------------------------------------------------------
(* SpecMission: complete_pve_mission, lines 150-183, and                   *)
(* generate_random_item, lines 185-208.                                    *)

\* lines 41-52: the exp and gold of the catalog
MISSIONS_CATALOG ==
    <<[exp |-> 50, gold |-> 10], [exp |-> 80, gold |-> 15], [exp |-> 120, gold |-> 25],
      [exp |-> 180, gold |-> 40], [exp |-> 250, gold |-> 60], [exp |-> 220, gold |-> 50],
      [exp |-> 300, gold |-> 80], [exp |-> 400, gold |-> 120], [exp |-> 550, gold |-> 180],
      [exp |-> 750, gold |-> 250]>>

\* the mission ids a request may carry: 0 (falsy), the catalog, and one beyond it
MissionIds == 0..(Len(MISSIONS_CATALOG) + 1)
\* user_id: 0 for a request that carries none
UserIds == {0, 1}

DROP_RATE == 4000
LEVEL_JITTER == 10
STAT_JITTER == 3

\* the values of random.random() at line 171: both sides of the drop rate
DropUnits == {0, 3999, 4000, 9999}
\* the point of the weights [50, 30, 15, 5] that random.choices lands on
WeightPoints == {0, 49, 50, 79, 80, 94, 95, 99}

item_types == <<"Weapon", "Shield", "Helmet", "Armor", "Boots", "Gloves", "Amulet", "Ring">>

\* line 166
exp_reward(m, victory) == IF victory THEN m.exp ELSE m.exp \div 2
\* line 167
gold_reward_half(m, victory) == IF victory THEN m.gold ELSE m.gold \div 2
gold_reward(m, victory) == IF victory THEN m.gold ELSE m.gold \div 3
\* line 171
Drops(victory, r) == victory /\ r < DROP_RATE

\* line 187: random.choices with weights 50, 30, 15, 5
Rarity(w) ==
    IF w < 50 THEN "Comun" ELSE IF w < 80 THEN "Raro"
    ELSE IF w < 95 THEN "Epico" ELSE "Legendario"
\* line 188, doubled
Multiplier2(rarity) ==
    CASE rarity = "Comun" -> 2 [] rarity = "Raro" -> 3
      [] rarity = "Epico" -> 4 [] rarity = "Legendario" -> 6
\* line 190: int(level * 0.5 * multiplier)
BaseStats(level, rarity) == (level * Multiplier2(rarity)) \div 4

\* lines 185-208; j is the value of the random.randint(0, 3) the type draws
generate_random_item(item_type, level, w, j) ==
    LET rarity == Rarity(w)
        base_stats == BaseStats(level, rarity)
        stats ==
            (IF item_type \in {"Weapon", "Gloves"} THEN {<<"power", base_stats + j>>} ELSE {})
            \cup (IF item_type \in {"Boots", "Ring"}
                  THEN {<<"dexterity", base_stats + j>>} ELSE {})
            \cup (IF item_type \in {"Shield", "Armor", "Helmet"}
                  THEN {<<"endurance", base_stats + j>>} ELSE {})
            \cup (IF item_type = "Amulet" THEN {<<"life", base_stats * 10>>} ELSE {})
    IN [type |-> item_type, level |-> level, rarity |-> rarity, stats |-> stats]

\* the calls generate_random_item makes to the random module
ItemDraws(item_type, w, j) ==
    <<Draw("choices", 187, w)>>
    \o (IF item_type = "Amulet" THEN <<>>
        ELSE <<Draw("randint",
                    IF item_type \in {"Weapon", "Gloves"} THEN 194
                    ELSE IF item_type \in {"Boots", "Ring"} THEN 196 ELSE 198, j)>>)

\* lines 158-159
MissionIncomplete ==
    /\ mission.mission_id = 0 \/ mission.user_id = 0
    /\ mission' = [mission EXCEPT !.pc = "returned", !.status = 400]
    /\ rng_log' = <<>>

\* lines 161-163
MissionInvalid ==
    /\ mission.mission_id # 0 /\ mission.user_id # 0
    /\ mission.mission_id \notin DOMAIN MISSIONS_CATALOG
    /\ mission' = [mission EXCEPT !.pc = "returned", !.status = 404]
    /\ rng_log' = <<>>

\* lines 165-183, no item: on a defeat line 171 draws nothing
MissionNoDrop(r) ==
    /\ mission.mission_id # 0 /\ mission.user_id # 0
    /\ mission.mission_id \in DOMAIN MISSIONS_CATALOG
    /\ ~Drops(mission.victory, r)
    /\ LET m == MISSIONS_CATALOG[mission.mission_id]
       IN mission' = [mission EXCEPT !.pc = "returned", !.status = 200,
                         !.exp = exp_reward(m, mission.victory),
                         !.gold = gold_reward(m, mission.victory),
                         !.item = NoItem]
    /\ rng_log' = IF mission.victory THEN <<Draw("random", 171, r)>> ELSE <<>>

\* lines 165-183, with the item of lines 172-176
MissionDrop(r, t, d, w, j) ==
    /\ mission.mission_id # 0 /\ mission.user_id # 0
    /\ mission.mission_id \in DOMAIN MISSIONS_CATALOG
    /\ Drops(mission.victory, r)
    /\ LET m == MISSIONS_CATALOG[mission.mission_id]
           item_type == item_types[t]
           item_level == mission.mission_id + d
       IN /\ mission' = [mission EXCEPT !.pc = "returned", !.status = 200,
                            !.exp = exp_reward(m, mission.victory),
                            !.gold = gold_reward(m, mission.victory),
                            !.item = generate_random_item(item_type, item_level, w, j)]
          /\ rng_log' = <<Draw("random", 171, r), Draw("choice", 173, t),
                          Draw("randint", 174, d)>> \o ItemDraws(item_type, w, j)

complete_pve_mission ==
    /\ mission.pc = "called"
    /\ \/ MissionIncomplete
       \/ MissionInvalid
       \/ \E r \in DropUnits : MissionNoDrop(r)
       \/ \E r \in DropUnits, t \in DOMAIN item_types, d \in 0..LEVEL_JITTER,
             w \in WeightPoints, j \in 0..STAT_JITTER : MissionDrop(r, t, d, w, j)
    /\ UNCHANGED <<pvp_queue, now, last, entered, req, attack>>

InitMission ==
    /\ pvp_queue = <<>>
    /\ now = 0
    /\ last = NoJoin
    /\ entered = [p \in Players |-> 0]
    /\ req = [r \in Reqs |-> IdleReq]
    /\ rng_log = <<>>
    /\ attack = NoAttack
    /\ \E mission_id \in MissionIds, user_id \in UserIds, victory \in BOOLEAN :
          mission = [NoMission EXCEPT !.pc = "called", !.mission_id = mission_id,
                        !.user_id = user_id, !.victory = victory]

SpecMission == InitMission /\ [][complete_pve_mission]_vars

-----------------------------------------------------------------------------
(* Claims about concurrent joins (SpecConc).                               *)

Matched == {r \in Reqs : req[r].status = "match_found"}

\* C2: the same waiting entry is never matched twice, and once a joiner has
\* begun matching an entry no other joiner has it as its candidate.
C2_EntryMatchedOnce ==
    \A a, b \in Reqs :
        (a # b /\ req[a].opponent # None /\ req[a].opponent = req[b].opponent) =>
            /\ ~(req[a].pc = "del" /\ req[b].pc = "del")
            /\ ~(req[a].pc = "del" /\ req[b].status = "match_found")
            /\ ~(req[a].status = "match_found" /\ req[b].status = "match_found")

\* C3: from an empty queue, N simultaneous joins of N distinct players with
\* levels >= 10 and pairwise within 5 end in exactly N \div 2 matches, with
\* no entry lost and no two compatible players both waiting.
C3_HalfMatched ==
    ( /\ \A r \in Reqs : req[r].pc = "done" /\ req[r].level >= 10
      /\ \A a, b \in Reqs :
            a # b => /\ req[a].user_id # req[b].user_id
                     /\ Abs(req[a].level - req[b].level) <= 5 )
    => /\ Cardinality(Matched) = NReqs \div 2
       /\ Len(pvp_queue) = NReqs - 2 * (NReqs \div 2)
       /\ \A r \in Reqs : req[r].status \in {"match_found", "searching"}

-----------------------------------------------------------------------------
(* Claims about execute_attack (SpecAttack).  The draws are read back from *)
(* rng_log: 1 the hit check, 2 the base damage, 3 critical, 4 block.       *)

\* rawDamage - defense of the claims, in halves, for the attack returned
RawMinusDefense ==
    LET raw == (attack.attacker.power + rng_log[2].value)
                   * (IF attack.critical THEN 2 ELSE 1)
        defense == attack.defender.endurance * 3 * (IF attack.blocked THEN 2 ELSE 1)
    IN 2 * raw - defense

\* Python's round() of a number of halves: to the nearest integer, a tie to
\* the even one
Round(h) ==
    IF h % 2 = 0 THEN h \div 2
    ELSE IF ((h - 1) \div 2) % 2 = 0 THEN (h - 1) \div 2 ELSE (h + 1) \div 2

\* C7 as stated: an attack that hits returns
\* damage = max(1, round(rawDamage - defense)).
C7_DamageRounded ==
    (attack.pc = "returned" /\ attack.hit) =>
        attack.damage = Max(1, Round(RawMinusDefense))

\* C7 amended: an attack that hits returns
\* damage = max(1, floor(rawDamage - defense)): the difference is truncated,
\* not rounded; damage >= 1 on every hit.
C7_DamageTruncated ==
    (attack.pc = "returned" /\ attack.hit) =>
        /\ attack.damage = Max(1, RawMinusDefense \div 2)
        /\ attack.damage >= 1
        /\ attack.critical = (rng_log[3].value < Min(3000, attack.attacker.dexterity * 10))
        /\ attack.blocked = (rng_log[4].value < Min(2500, attack.defender.endurance * 8))

\* a critical, unblocked hit whose rawDamage - defense is k + 0.5 with k >= 1
\* (a block doubles the defense to a whole number)
C7_Witness ==
    /\ attack.pc = "returned"
    /\ attack.hit
    /\ attack.critical
    /\ ~attack.blocked
    /\ RawMinusDefense % 2 = 1
    /\ RawMinusDefense > 2

\* C8: an attack misses exactly when the first draw r1 > hitChance(dex); a
\* miss consumes that one draw and returns hit=false, damage=0,
\* critical=false, blocked=false; a hit draws base damage, critical and
\* block after it, in that order.
C8_MissShortCircuits ==
    attack.pc = "returned" =>
        LET missed == rng_log[1].value > Min(9500, 7500 + attack.attacker.dexterity * 50)
        IN /\ rng_log[1].line = 82
           /\ missed <=> ~attack.hit
           /\ missed =>
                 /\ Len(rng_log) = 1
                 /\ attack.damage = 0
                 /\ ~attack.critical
                 /\ ~attack.blocked
           /\ ~missed =>
                 /\ Len(rng_log) = 4
                 /\ rng_log[2].line = 69
                 /\ rng_log[3].line = 95
                 /\ rng_log[4].line = 101

\* a miss at the smallest draw above the hit chance
C8_Witness ==
    /\ attack.pc = "returned"
    /\ ~attack.hit
    /\ rng_log[1].value = 7501
    /\ attack.attacker.dexterity = 0
    /\ attack.attacker.power > 1
    /\ attack.defender.endurance > 0

-----------------------------------------------------------------------------
(* Claims about complete_pve_mission (SpecMission).                        *)

\* C9: for every mission id 1..10, a defeat yields exp = floor(mission.exp / 2),
\* gold = floor(mission.gold / 3) and no item; a victory yields mission.exp
\* and mission.gold; an item is returned only on a victory.
C9_DefeatRewards ==
    (mission.pc = "returned" /\ mission.user_id # 0 /\ mission.mission_id \in 1..10) =>
        LET m == MISSIONS_CATALOG[mission.mission_id]
        IN /\ mission.status = 200
           /\ ~mission.victory =>
                 /\ 2 * mission.exp <= m.exp /\ m.exp < 2 * (mission.exp + 1)
                 /\ 3 * mission.gold <= m.gold /\ m.gold < 3 * (mission.gold + 1)
                 /\ mission.item = NoItem
           /\ mission.victory => (mission.exp = m.exp /\ mission.gold = m.gold)
           /\ mission.item # NoItem => mission.victory
           /\ (mission.mission_id = 1 /\ ~mission.victory) =>
                 (mission.exp = 25 /\ mission.gold = 3)

\* a defeat at mission 10, whose gold 250 is no multiple of 3
C9_Witness ==
    /\ mission.pc = "returned"
    /\ mission.status = 200
    /\ ~mission.victory
    /\ mission.mission_id = 10
    /\ mission.exp = 375
    /\ mission.gold = 83

-----------------------------------------------------------------------------
(* Claims about join_pvp_queue, one request at a time (Spec).  last.items  *)
(* is the queue the request found, pvp_queue the queue it left.            *)

\* the entries of last.items that the request of last may be paired with
Candidates ==
    {i \in 1..Len(last.items) :
        /\ last.items[i].uid # last.user_id
        /\ Abs(last.items[i].level - last.level) <= 5}

\* C1: whenever a join returns a match, the queue afterwards holds no entry
\* of the matched opponent and no entry of the joining player.
C1_MatchLeavesNeitherQueued ==
    last.status = "match_found" =>
        /\ last.opponent.uid \notin Keys(pvp_queue)
        /\ last.user_id \notin Keys(pvp_queue)

\* C4: a join at level >= 10 returns a match iff the queue held an entry of
\* another player within 5 levels (5 included); otherwise it returns
\* Searching and the queue gains an entry of the player at that level, every
\* other entry unchanged.  20 then 24: Searching, MatchFound, queue empty;
\* 20 then 30: Searching twice, both queued.
C4_MatchIffCandidate ==
    (last.status # "none" /\ last.level >= 10) =>
        /\ last.status = "match_found" <=> Candidates # {}
        /\ last.status = "match_found" =>
               /\ \E i \in Candidates : last.opponent = last.items[i]
               /\ last.match_id[1] = last.user_id
               /\ last.match_id[2] = last.opponent.uid
        /\ Candidates = {} =>
               /\ last.status = "searching"
               /\ \E i \in 1..Len(pvp_queue) :
                      /\ pvp_queue[i].uid = last.user_id
                      /\ pvp_queue[i].level = last.level
               /\ DelItem(pvp_queue, last.user_id) = DelItem(last.items, last.user_id)
        /\ (Len(last.items) = 1 /\ last.items[1].level = 20
              /\ last.items[1].uid # last.user_id) =>
               /\ last.level = 24 => (last.status = "match_found" /\ pvp_queue = <<>>)
               /\ last.level = 30 => (last.status = "searching" /\ Len(pvp_queue) = 2)

\* a match at exactly 5 levels apart that empties the queue
C4_Witness ==
    /\ last.status = "match_found"
    /\ Abs(last.opponent.level - last.level) = 5
    /\ pvp_queue = <<>>

\* C5 as stated: the opponent returned is the candidate with the earliest
\* join time, also after joins that refresh a waiting player's entry.
C5_EarliestJoinTime ==
    last.status = "match_found" =>
        \A i \in Candidates : last.opponent.timestamp <= last.items[i].timestamp

\* C5 amended: the opponent returned is the candidate whose key entered the
\* queue first (the first candidate in the mapping's order); a refresh
\* overwrites the stored timestamp and keeps the entry's place.
C5_FirstEntered ==
    last.status = "match_found" =>
        \E i \in Candidates :
            /\ last.opponent = last.items[i]
            /\ \A j \in Candidates :
                   /\ i <= j
                   /\ last.entered[last.opponent.uid] <= last.entered[last.items[j].uid]

\* a match chosen among two candidates that entered at different times,
\* the one chosen carrying the later timestamp
C5_Witness ==
    /\ last.status = "match_found"
    /\ \E j \in Candidates :
           /\ last.items[j].timestamp < last.opponent.timestamp
           /\ last.entered[last.opponent.uid] < last.entered[last.items[j].uid]

\* C6: a join with level < 10 returns the eligibility error and leaves the
\* queue as it was, an entry of the same player included.
C6_LowLevelRejected ==
    (last.status # "none" /\ last.level < 10) =>
        /\ last.status = "error"
        /\ pvp_queue = last.items

\* a rejected join of a player who has a waiting entry
C6_Witness ==
    /\ last.status = "error"
    /\ last.level < 10
    /\ last.user_id \in Keys(pvp_queue)

\* C10: with joins handled one at a time, the queue holds only entries of
\* level >= 10 and no two entries of distinct players within 5 levels.
C10_NoCompatiblePairWaiting ==
    /\ \A i \in 1..Len(pvp_queue) : pvp_queue[i].level >= 10
    /\ \A i, j \in 1..Len(pvp_queue) :
           i # j =>
               /\ pvp_queue[i].uid # pvp_queue[j].uid
               /\ Abs(pvp_queue[i].level - pvp_queue[j].level) > 5

\* two players waiting, after a join that found nobody to pair with
C10_Witness ==
    /\ Len(pvp_queue) = 2
    /\ last.status = "searching"
    /\ Len(last.items) = 1

=============================================================================
